---- MODULE Spec2Model ----
(***************************************************************************)
(* Model of scripts/MeasureMoveDistance.js (fvtt-elevation-ruler):          *)
(* the facade MeasureMoveDistance.measure, the gridless measurer with its   *)
(* breakpoint search, and the gridded measurer with its cell walk and its   *)
(* elevation completion.                                                    *)
(*                                                                          *)
(* Distances are integers in grid units; points are pixel coordinates on    *)
(* one planar axis x plus the elevation z (inputs with y = 0); cells are    *)
(* (i, k): a planar index and the elevation index.                          *)
(***************************************************************************)
EXTENDS Integers, Sequences, FiniteSets, TLC

\* ------------------------------------------------------------------------
\* Bounds of the model
\* ------------------------------------------------------------------------
\* longest segment a -> b, in multiples of the direction vector
MaxSteps == 3
\* largest k of the stop targets (k + 0.5) * s * p that are tried
MaxK == 1

\* ------------------------------------------------------------------------
\* The environment: canvas dimensions and the collaborators
\* ------------------------------------------------------------------------
\* canvas.dimensions: pixels per grid cell and grid units per grid cell
canvasDimensions == [size |-> 8, distance |-> 4]

Abs(n) == IF n < 0 THEN -n ELSE n
Max2(m, n) == IF m < n THEN n ELSE m

\* Math.round(num / den) for den > 0: floor(x + 0.5)
MathRound(num, den) == (2 * num + den) \div (2 * den)

\* coordinates: a continuous point (x, z), a grid cell (i, k), or undefined
Pt(x, z) == [tag |-> "pt", u |-> x, v |-> z]
Cell(i, k) == [tag |-> "cell", u |-> i, v |-> k]
Undefined == [tag |-> "undefined", u |-> 0, v |-> 0]

\* CONFIG.GeometryLib.utils.pixelsToGridUnits
pixelsToGridUnits(px) == (px * canvasDimensions.distance) \div canvasDimensions.size

\* MeasurePhysicalDistanceGridless(a, b): euclidean distance in pixels (the
\* integer square root, exact on the segments the inputs produce)
MeasurePhysicalDistanceGridless(a, b) ==
    LET dx == Abs(b.u - a.u)
        dz == Abs(b.v - a.v)
    IN  IF dx = 0 THEN dz
        ELSE IF dz = 0 THEN dx
        ELSE CHOOSE r \in 0..(dx + dz) : r * r <= dx * dx + dz * dz
                                         /\ (r + 1) * (r + 1) > dx * dx + dz * dz

\* unitElevationFromCoordinates: a cell carries its k, a point's z is converted
unitElevationFromCoordinates(c) ==
    IF c.tag = "cell" THEN c.v ELSE MathRound(c.v, canvasDimensions.size)

\* the cell that contains a point
ToCell(c) ==
    IF c.tag = "cell" THEN c
    ELSE Cell(c.u \div canvasDimensions.size, unitElevationFromCoordinates(c))

\* MeasurePhysicalDistanceGridded.gridUnder3dLine(a, b): the cells from the cell
\* of a to the cell of b, one per step along the longer axis; empty in the
\* anomalous case
gridUnder3dLine(a, b, anomalous) ==
    LET ca == ToCell(a)
        cb == ToCell(b)
        di == cb.u - ca.u
        dk == cb.v - ca.v
        n  == Max2(Abs(di), Abs(dk))
    IN  IF anomalous THEN << >>
        ELSE IF n = 0 THEN << ca >>
        ELSE [j \in 1..(n + 1) |->
                Cell(ca.u + MathRound((j - 1) * di, n), ca.v + MathRound((j - 1) * dk, n))]

\* MeasurePhysicalDistanceGridded.measure(prev, curr): every step to a
\* neighbouring cell costs one cell's grid distance
MeasurePhysicalDistanceGridded(p, c) ==
    canvasDimensions.distance * Max2(Abs(c.u - p.u), Abs(c.v - p.v))

\* the cells of rough terrain
RoughCells == {Cell(1, 0), Cell(2, 2)}
InRough(c) == ToCell(c) \in RoughCells

\* The penalty functions a caller can supply, and the default of the factory
\* (MovePenaltyGridless.movePenaltyFn(), MovePenaltyGridded.movePenaltyFn()),
\* which is 1 on the unpenalized path. "terrain" depends on both of its
\* arguments and is not symmetric in them: 3 when the first lies in rough
\* terrain, else 2 when the second does, else 1.
PenaltyNames == {"undefined", "const0", "const2", "terrain"}
penaltyFn(name, p, q, token) ==
    CASE name = "const2"  -> 2
      [] name = "const0"  -> 0
      [] name = "terrain" -> IF InRough(p) THEN 3 ELSE IF InRough(q) THEN 2 ELSE 1
      [] OTHER            -> 1

IsConstantPenalty(name) == name \in {"undefined", "default", "const0", "const2"}

\* penaltyFn ??= MovePenalty....movePenaltyFn()
DefaultIfUndefined(name) == IF name = "undefined" THEN "default" ELSE name

\* if ( stopTarget ): undefined and 0 are falsy
Truthy(hasStop, stop) == hasStop /\ stop # 0

\* ------------------------------------------------------------------------
\* Results
\* ------------------------------------------------------------------------
NoResult == [kind |-> "none", distance |-> 0, moveDistance |-> 0, endGridCoords |-> Undefined]
TypeError == [kind |-> "TypeError", distance |-> 0, moveDistance |-> 0, endGridCoords |-> Undefined]
\* the bare number 0 of the degenerate return: it has no fields
NumberZero == [kind |-> "number", distance |-> 0, moveDistance |-> 0, endGridCoords |-> Undefined]
MeasurementResult(d, dMove, end) ==
    [kind |-> "MeasurementResult", distance |-> d, moveDistance |-> dMove, endGridCoords |-> end]

\* ------------------------------------------------------------------------
\* The facade (MeasureMoveDistance)
\* ------------------------------------------------------------------------
\* the static methods the two measurer classes define or inherit
StaticMethods(cl) == {"measure"}

\* the method name the facade hands to #applyChildClass
FacadeMethod == "measureMoveDistance"

\* #applyChildClass: gridless ||= canvas.grid.type === GRIDLESS; pick the class
ChildClass(gridless, canvasGridless) ==
    IF gridless \/ canvasGridless THEN "gridless" ELSE "gridded"

\* cl[method](...args): calling a property that is undefined throws
IsCallable(cl, method) == method \in StaticMethods(cl)

\* ------------------------------------------------------------------------
\* The gridless measurer (MeasureMoveDistanceGridless)
\* ------------------------------------------------------------------------
\* #findGridlessBreakpoint is declared without `static`: it is a private method
\* of instances. In the static measure, `this` is the class constructor.
HasPrivateMethod(receiver) == receiver = "instance"

\* a.projectToward(b, t) for t = tn / td
projectToward(a, b, tn, td) ==
    Pt(a.u + ((b.u - a.u) * tn) \div td, a.v + ((b.v - a.v) * tn) \div td)

\* the measurement of a segment without a stop target
GridlessSegment(a, b, token, fn) ==
    LET penalty == penaltyFn(fn, a, b, token)
        d       == pixelsToGridUnits(MeasurePhysicalDistanceGridless(a, b))
    IN  MeasurementResult(d, d * penalty, b)

MAX_ITER == 20

\* moveDistance.almostEqual(splitMoveDistance, .01), on whole grid units
AlmostEqual(x, y) == x = y

\* the loop of #findGridlessBreakpoint; t, maxLow and maxHigh are tn/td, lo/td, hi/td
RECURSIVE BreakpointLoop(_, _, _, _, _, _, _, _, _, _)
BreakpointLoop(i, tn, lo, hi, td, a, b, token, split, fn) ==
    LET testSplitPoint == projectToward(a, b, tn, td)
        moveDistance   == GridlessSegment(a, testSplitPoint, token, fn).moveDistance
    IN  IF AlmostEqual(moveDistance, split) \/ i + 1 >= MAX_ITER THEN testSplitPoint
        ELSE IF moveDistance > split
             THEN BreakpointLoop(i + 1, tn + lo, 2 * lo, 2 * tn, 2 * td, a, b, token, split, fn)
             ELSE BreakpointLoop(i + 1, tn + hi, 2 * tn, 2 * hi, 2 * td, a, b, token, split, fn)

\* the body of #findGridlessBreakpoint, for a receiver that has a measure method
findGridlessBreakpoint(a, b, token, splitMoveDistance, fn) ==
    LET fullMoveDistance == GridlessSegment(a, b, token, fn).moveDistance
    IN  IF fullMoveDistance = 0
        THEN (IF splitMoveDistance < 0 THEN a ELSE b)
        ELSE IF splitMoveDistance <= 0 THEN a
        ELSE IF splitMoveDistance >= fullMoveDistance THEN b
        ELSE BreakpointLoop(0, splitMoveDistance, 0, fullMoveDistance, fullMoveDistance,
                            a, b, token, splitMoveDistance, fn)

\* MeasureMoveDistanceGridless.measure, called on the class
GridlessMeasure(a, b, token, useAllElevation, hasStop, stopTarget, pen) ==
    LET fn == DefaultIfUndefined(pen)
    IN  IF Truthy(hasStop, stopTarget)
        THEN IF ~HasPrivateMethod("class") THEN TypeError
             ELSE LET bp == findGridlessBreakpoint(a, b, token, stopTarget, fn)
                      b2 == IF useAllElevation THEN Pt(bp.u, b.v) ELSE bp
                  IN  GridlessSegment(a, b2, token, fn)
        ELSE GridlessSegment(a, b, token, fn)

\* ------------------------------------------------------------------------
\* The gridded measurer (MeasureMoveDistanceGridded)
\* ------------------------------------------------------------------------
\* One activation of the static measure. The stack holds the activations of
\* the recursion, the innermost last.
NewFrame(fa, fb, token, useAllElevation, hasStop, stopTarget, pen, anomalous) ==
    [a |-> fa, b |-> fb, token |-> token, useAllElevation |-> useAllElevation,
     hasStop |-> hasStop, stopTarget |-> stopTarget, penaltyFn |-> pen,
     anomalous |-> anomalous,
     cells |-> << >>, next |-> 0,
     prevGridCoords |-> Undefined, currGridCoords |-> Undefined,
     dTotal |-> 0, dMoveTotal |-> 0, endGridCoords |-> Undefined, pc |-> "enter"]

\* Early stop if the stop target is met
ShouldBreak_CheckBeforeStep(hasStop, stopTarget, dMoveTotal, dMove) ==
    Truthy(hasStop, stopTarget) /\ dMoveTotal > stopTarget
ShouldBreak(hasStop, stopTarget, dMoveTotal, dMove) ==
    Truthy(hasStop, stopTarget) /\ (dMoveTotal + dMove) > stopTarget

\* dTotal += d; dMoveTotal += dMove
Accumulate_Subtract(total, d) == total - d
Accumulate(total, d) == total + d

\* the condition of the elevation completion
NeedsElevation(f) == f.useAllElevation /\ f.currGridCoords # Undefined

\* const endGridCoords = { ...currGridCoords }; endGridCoords.k = unitElevationFromCoordinates(b)
SyntheticEnd(f) == Cell(f.currGridCoords.u, unitElevationFromCoordinates(f.b))

\* this.measure(currGridCoords, endGridCoords, { penaltyFn, useAllElevation: false }):
\* the third positional parameter is the token, so the options object is bound
\* to the token and the options parameter takes its defaults
NestedCall(f, end) ==
    NewFrame(f.currGridCoords, end, "options", TRUE, FALSE, 0, "undefined", FALSE)

\* ------------------------------------------------------------------------
\* State
\* ------------------------------------------------------------------------
VARIABLES
    a,          \* the start point of the series of calls
    dir,        \* the direction of the segment: b = a + m * dir
    pen,        \* the penalty function the caller supplies
    call,       \* the arguments of the call in progress
    pc,         \* "idle", the entry point that runs, or "done"
    stack,      \* the activations of the gridded measure
    result,     \* what the call returned or threw
    prevRes     \* an earlier result of the series, measured without a stop target

vars == << a, dir, pen, call, pc, stack, result, prevRes >>

\* the centre of cell (0, 0), and a point of cell (1, 1)
Starts == {Pt(4, 0), Pt(12, 8)}
Dirs == {[dx |-> 8, dz |-> 0], [dx |-> 8, dz |-> 6], [dx |-> 0, dz |-> 8]}

\* the stop targets (k + 0.5) * s * p for p in 1..2
StopTargets ==
    {((2 * k + 1) * canvasDimensions.distance * p) \div 2 : k \in 0..MaxK, p \in 1..2}

\* the end point of a call: a + m * dir
EndPoint(m) == Pt(a.u + m * dir.dx, a.v + m * dir.dz)
B == EndPoint(call.m)

NoCall == [entry |-> "none", gridless |-> FALSE, canvasGridless |-> FALSE, m |-> 0,
           useAllElevation |-> TRUE, hasStop |-> FALSE, stopTarget |-> 0,
           anomalous |-> FALSE]
NoPrev == [entry |-> "none", m |-> 0, moveDistance |-> 0]

Top == stack[Len(stack)]
SetTop(f) == [stack EXCEPT ![Len(stack)] = f]

Init ==
    /\ a \in Starts
    /\ dir \in Dirs
    /\ pen \in PenaltyNames
    /\ call = NoCall
    /\ pc = "idle"
    /\ stack = << >>
    /\ result = NoResult
    /\ prevRes = NoPrev

\* a finished call of the series that later calls are compared with
Comparable ==
    /\ pc = "done"
    /\ call.entry \in {"gridless", "gridded"}
    /\ ~call.hasStop
    /\ result.kind = "MeasurementResult"

\* the frame of a top-level gridded call
TopLevelFrame(c) ==
    NewFrame(a, EndPoint(c.m), "mover", c.useAllElevation, c.hasStop, c.stopTarget,
             pen, c.anomalous)

\* the option sets a caller can pass
Calls ==
    LET stops == {[hasStop |-> FALSE, stopTarget |-> 0]}
                 \cup {[hasStop |-> TRUE, stopTarget |-> t] : t \in StopTargets \cup {0}}
        opts  == {[m |-> m, useAllElevation |-> u, hasStop |-> st.hasStop,
                   stopTarget |-> st.stopTarget] :
                        m \in 0..MaxSteps, u \in BOOLEAN, st \in stops}
        mk(entry, gridless, canvasGridless, anomalous, o) ==
                 [entry |-> entry, gridless |-> gridless, canvasGridless |-> canvasGridless,
                  m |-> o.m, useAllElevation |-> o.useAllElevation, hasStop |-> o.hasStop,
                  stopTarget |-> o.stopTarget, anomalous |-> anomalous]
    IN  {mk("facade", g, c, FALSE, o) : g \in BOOLEAN, c \in BOOLEAN, o \in opts}
        \cup {mk("gridless", FALSE, FALSE, FALSE, o) : o \in opts}
        \cup {mk("gridded", FALSE, FALSE, an, o) : an \in BOOLEAN, o \in opts}

\* a caller invokes one of the three measure operations
Invoke ==
    /\ pc = "idle"
    /\ \E c \in Calls :
          /\ call' = c
          /\ pc' = c.entry
          /\ stack' = IF c.entry = "gridded" THEN << TopLevelFrame(c) >> ELSE << >>
    /\ UNCHANGED << a, dir, pen, result, prevRes >>

\* the caller takes the result; a result measured without a stop target is
\* kept for comparison with later calls of the series
Complete ==
    /\ pc = "done"
    /\ pc' = "idle"
    /\ call' = NoCall
    /\ stack' = << >>
    /\ result' = NoResult
    /\ prevRes' = IF Comparable
                  THEN [entry |-> call.entry, m |-> call.m, moveDistance |-> result.moveDistance]
                  ELSE prevRes
    /\ UNCHANGED << a, dir, pen >>

\* MeasureMoveDistance.measure and #applyChildClass
FacadeMeasure ==
    /\ pc = "facade"
    /\ LET cl == ChildClass(call.gridless, call.canvasGridless)
       IN  IF IsCallable(cl, FacadeMethod)
           THEN /\ pc' = cl
                /\ stack' = IF cl = "gridded" THEN << TopLevelFrame(call) >> ELSE << >>
                /\ result' = result
           ELSE /\ pc' = "done"
                /\ stack' = stack
                /\ result' = TypeError
    /\ UNCHANGED << a, dir, pen, call, prevRes >>

\* MeasureMoveDistanceGridless.measure
GridlessMeasureCall ==
    /\ pc = "gridless"
    /\ result' = GridlessMeasure(a, B, "mover", call.useAllElevation, call.hasStop,
                                 call.stopTarget, pen)
    /\ pc' = "done"
    /\ UNCHANGED << a, dir, pen, call, stack, prevRes >>

\* MeasureMoveDistanceGridded.measure up to the loop: rasterize, take the first cell
GriddedEnter ==
    /\ pc = "gridded"
    /\ stack # << >>
    /\ Top.pc = "enter"
    /\ LET f     == Top
           cells == gridUnder3dLine(f.a, f.b, f.anomalous)
       IN  IF cells = << >>
           THEN \* return 0
                /\ Len(stack) = 1
                /\ stack' = SetTop([f EXCEPT !.pc = "returned"])
                /\ result' = NumberZero
                /\ pc' = "done"
           ELSE /\ stack' = SetTop([f EXCEPT !.cells = cells, !.next = 2,
                                             !.prevGridCoords = cells[1],
                                             !.penaltyFn = DefaultIfUndefined(f.penaltyFn),
                                             !.pc = "walk"])
                /\ result' = result
                /\ pc' = pc
    /\ UNCHANGED << a, dir, pen, call, prevRes >>

\* one iteration of the cell walk, or its end when the iterator is exhausted
GriddedStep ==
    /\ pc = "gridded"
    /\ stack # << >>
    /\ Top.pc = "walk"
    /\ LET f == Top
       IN  IF f.next > Len(f.cells)
           THEN stack' = SetTop([f EXCEPT !.pc = "after"])
           ELSE LET currGridCoords == f.cells[f.next]
                    d       == MeasurePhysicalDistanceGridded(f.prevGridCoords, currGridCoords)
                    penalty == penaltyFn(f.penaltyFn, currGridCoords, f.prevGridCoords, f.token)
                    dMove   == d * penalty
                IN  IF ShouldBreak(f.hasStop, f.stopTarget, f.dMoveTotal, dMove)
                    THEN stack' = SetTop([f EXCEPT !.currGridCoords = currGridCoords,
                                                   !.pc = "after"])
                    ELSE stack' = SetTop([f EXCEPT !.currGridCoords = currGridCoords,
                                                   !.dTotal = Accumulate(f.dTotal, d),
                                                   !.dMoveTotal = Accumulate(f.dMoveTotal, dMove),
                                                   !.prevGridCoords = currGridCoords,
                                                   !.next = f.next + 1])
    /\ UNCHANGED << a, dir, pen, call, pc, result, prevRes >>

\* the elevation completion: build the synthetic end cell and call measure again
GriddedElevation ==
    /\ pc = "gridded"
    /\ stack # << >>
    /\ Top.pc = "after"
    /\ NeedsElevation(Top)
    /\ LET f   == Top
           end == SyntheticEnd(f)
       IN  stack' = Append(SetTop([f EXCEPT !.endGridCoords = end, !.pc = "nested"]),
                           NestedCall(f, end))
    /\ UNCHANGED << a, dir, pen, call, pc, result, prevRes >>

\* return { distance, moveDistance, endGridCoords }; in a nested call the caller
\* adds the result to its totals and takes the synthetic cell as its end
GriddedReturn ==
    /\ pc = "gridded"
    /\ stack # << >>
    /\ \/ Top.pc = "after" /\ ~NeedsElevation(Top)
       \/ Top.pc = "resume"
    /\ LET f   == Top
           res == MeasurementResult(f.dTotal, f.dMoveTotal, f.currGridCoords)
       IN  IF Len(stack) = 1
           THEN /\ stack' = SetTop([f EXCEPT !.pc = "returned"])
                /\ result' = res
                /\ pc' = "done"
           ELSE LET parent == stack[Len(stack) - 1]
                IN  /\ stack' = [SubSeq(stack, 1, Len(stack) - 1) EXCEPT ![Len(stack) - 1] =
                                    [parent EXCEPT !.dTotal = Accumulate(parent.dTotal, res.distance),
                                                   !.dMoveTotal = Accumulate(parent.dMoveTotal, res.moveDistance),
                                                   !.currGridCoords = parent.endGridCoords,
                                                   !.pc = "resume"]]
                    /\ result' = result
                    /\ pc' = pc
    /\ UNCHANGED << a, dir, pen, call, prevRes >>

Next ==
    \/ Invoke
    \/ Complete
    \/ FacadeMeasure
    \/ GridlessMeasureCall
    \/ GriddedEnter
    \/ GriddedStep
    \/ GriddedElevation
    \/ GriddedReturn

Spec == Init /\ [][Next]_vars

\* ------------------------------------------------------------------------
\* Reference sums over a rasterized path, independent of the walk's state
\* ------------------------------------------------------------------------
\* the physical distance of the first j cells of a path
RECURSIVE SumD(_, _)
SumD(cells, j) ==
    IF j <= 1 THEN 0
    ELSE SumD(cells, j - 1) + MeasurePhysicalDistanceGridded(cells[j - 1], cells[j])

\* the penalized distance of the first j cells, each step weighted by
\* fn(current, previous, token)
RECURSIVE SumMove(_, _, _, _)
SumMove(cells, j, fn, token) ==
    IF j <= 1 THEN 0
    ELSE SumMove(cells, j - 1, fn, token)
         + MeasurePhysicalDistanceGridded(cells[j - 1], cells[j])
           * penaltyFn(fn, cells[j], cells[j - 1], token)

\* the number of cells reached under a budget: the longest prefix whose
\* penalized distance stays within the stop target
Reached(cells, fn, token, stopTarget) ==
    CHOOSE j \in 1..Len(cells) :
        /\ \A i \in 1..j : SumMove(cells, i, fn, token) <= stopTarget
        /\ j < Len(cells) => SumMove(cells, j + 1, fn, token) > stopTarget

\* a top-level gridded call that returned a result; stack[1] is its activation
GriddedDone == pc = "done" /\ call.entry = "gridded" /\ ~call.anomalous
Fn == DefaultIfUndefined(pen)
\* the value of a constant penalty function
PenaltyValue == penaltyFn(Fn, Undefined, Undefined, "mover")

\* ------------------------------------------------------------------------
\* Claims
\* ------------------------------------------------------------------------

\* C1: a call of the facade returns exactly the MeasurementResult of the chosen
\* measurer (gridless when options.gridless or the canvas is gridless, else
\* gridded) and never ends in an error.
C1_FacadeReturnsStrategyResult ==
    (pc = "done" /\ call.entry = "facade") =>
        /\ result.kind = "MeasurementResult"
        /\ (ChildClass(call.gridless, call.canvasGridless) = "gridless" /\ ~call.hasStop)
              => result = GridlessSegment(a, B, "mover", Fn)

\* C2: gridded measure with uniform steps s, uniform penalty p and
\* stopTarget = (k + 0.5) * s * p, k < N - 1, stops at cell k: endGridCoords is
\* cell k, distance is k * s and moveDistance is k * s * p.
C2_StopsAtCellK ==
    \A k \in 0..MaxK :
        (/\ GriddedDone
         /\ IsConstantPenalty(pen)
         /\ call.hasStop
         /\ ~call.useAllElevation
         /\ 2 * call.stopTarget = (2 * k + 1) * canvasDimensions.distance * PenaltyValue
         /\ k < Len(stack[1].cells) - 1)
        => /\ result.endGridCoords = stack[1].cells[k + 1]
           /\ result.distance = k * canvasDimensions.distance
           /\ result.moveDistance = k * canvasDimensions.distance * PenaltyValue

\* C3: when the rasterization yields no first cell, gridded measure returns a
\* MeasurementResult with distance 0 and moveDistance 0.
C3_DegenerateIsZeroResult ==
    (pc = "done" /\ call.entry = "gridded" /\ call.anomalous) =>
        /\ result.kind = "MeasurementResult"
        /\ result.distance = 0
        /\ result.moveDistance = 0

\* C4: with the constant penalty function 2 the returned moveDistance is twice
\* the returned distance, for both measurers and all options.
C4_ConstantTwoDoubles ==
    (pc = "done" /\ pen = "const2" /\ call.entry \in {"gridless", "gridded"}
     /\ ~call.anomalous) =>
        /\ result.kind = "MeasurementResult"
        /\ result.moveDistance = 2 * result.distance

\* C5: gridless measure with stopTarget = D / 2 under a constant penalty
\* completes without error, ends at the middle of a->b and returns
\* moveDistance = D / 2.
C5_GridlessHalfway ==
    (/\ pc = "done" /\ call.entry = "gridless"
     /\ IsConstantPenalty(pen)
     /\ call.hasStop /\ call.stopTarget > 0
     /\ 2 * call.stopTarget = GridlessSegment(a, B, "mover", Fn).moveDistance) =>
        /\ result.kind = "MeasurementResult"
        /\ result.moveDistance = call.stopTarget
        /\ 2 * (result.endGridCoords.u - a.u) = B.u - a.u

\* the cell the walk of the top-level call ended on, and the vertical segment
\* from it to the synthetic end cell
WalkEnd == stack[1].prevGridCoords
WalkCount == IF Truthy(call.hasStop, call.stopTarget)
             THEN Reached(stack[1].cells, Fn, "mover", call.stopTarget)
             ELSE Len(stack[1].cells)
Vertical == gridUnder3dLine(WalkEnd, Cell(WalkEnd.u, unitElevationFromCoordinates(B)), FALSE)

\* C6: with useAllElevation and b at another elevation than a's cell, the end
\* has the unit elevation of b and the planar index of the cell the walk ended
\* on, and the totals are those of the walk plus the vertical segment's.
C6_ElevationCompletion ==
    (/\ GriddedDone
     /\ call.useAllElevation
     /\ unitElevationFromCoordinates(B) # ToCell(a).v) =>
        /\ result.endGridCoords.tag = "cell"
        /\ result.endGridCoords.v = unitElevationFromCoordinates(B)
        /\ result.endGridCoords.u = WalkEnd.u
        /\ result.distance = SumD(stack[1].cells, WalkCount) + SumD(Vertical, Len(Vertical))
        /\ result.moveDistance = SumMove(stack[1].cells, WalkCount, Fn, "mover")
                                 + SumMove(Vertical, Len(Vertical), Fn, "mover")

\* C7 as stated: for any penalty function with values >= 0 the moveDistance of
\* measure(a, b@t) without a stop target is non-decreasing in t.
C7_MonotoneAnyPenalty ==
    (Comparable /\ prevRes.entry = call.entry) =>
        /\ prevRes.m <= call.m => prevRes.moveDistance <= result.moveDistance
        /\ call.m <= prevRes.m => result.moveDistance <= prevRes.moveDistance

\* C7 amended: for a constant penalty function with a value >= 0 the
\* moveDistance of measure(a, b@t) without a stop target is non-decreasing in t,
\* for the gridless and for the gridded measurer.
C7_MonotoneConstantPenalty ==
    (Comparable /\ prevRes.entry = call.entry /\ IsConstantPenalty(pen)) =>
        /\ prevRes.m <= call.m => prevRes.moveDistance <= result.moveDistance
        /\ call.m <= prevRes.m => result.moveDistance <= prevRes.moveDistance

C7_Witness ==
    /\ Comparable /\ prevRes.entry = call.entry /\ IsConstantPenalty(pen)
    /\ prevRes.m < call.m
    /\ 0 < prevRes.moveDistance
    /\ prevRes.moveDistance < result.moveDistance

\* C8: the nested measure call of the elevation completion runs with
\* useAllElevation = false and the caller's penaltyFn and mover, and a
\* top-level call causes at most one nested call.
C8_RecursesAtMostOnce ==
    /\ Len(stack) <= 2
    /\ \A i \in 2..Len(stack) :
          /\ ~stack[i].useAllElevation
          /\ stack[i].token = stack[i - 1].token
          /\ DefaultIfUndefined(stack[i].penaltyFn) = DefaultIfUndefined(stack[i - 1].penaltyFn)

\* C9: with a stop target > 0 the walk never lets dMoveTotal exceed the stop
\* target; the totals are the sums over the committed steps, each weighted by
\* penaltyFn(current, previous, mover); the step that would exceed the target
\* adds nothing and ends the walk; without elevation completion the returned
\* moveDistance is within the stop target and is the sum over the committed
\* steps.
C9_BudgetKept ==
    /\ \A i \in 1..Len(stack) :
          LET f == stack[i]
          IN  (f.hasStop /\ f.stopTarget > 0 /\ f.pc \in {"walk", "after"}) =>
                 /\ f.dMoveTotal <= f.stopTarget
                 /\ f.dTotal = SumD(f.cells, f.next - 1)
                 /\ f.dMoveTotal = SumMove(f.cells, f.next - 1, f.penaltyFn, f.token)
                 /\ f.next - 1 <= Reached(f.cells, f.penaltyFn, f.token, f.stopTarget)
                 /\ f.pc = "after" =>
                        f.next - 1 = Reached(f.cells, f.penaltyFn, f.token, f.stopTarget)
    /\ (GriddedDone /\ call.hasStop /\ call.stopTarget > 0 /\ ~call.useAllElevation) =>
          /\ result.moveDistance <= call.stopTarget
          /\ result.distance = SumD(stack[1].cells, WalkCount)
          /\ result.moveDistance = SumMove(stack[1].cells, WalkCount, Fn, "mover")

C9_Witness ==
    /\ GriddedDone /\ call.hasStop /\ call.stopTarget > 0 /\ ~call.useAllElevation
    /\ stack[1].next <= Len(stack[1].cells)
    /\ 0 < result.moveDistance
    /\ result.moveDistance < call.stopTarget

\* C10: the breakpoint search returns b for a target >= the full penalized
\* distance and otherwise a candidate point of the segment a->b found by
\* bisection.
C10_BreakpointSearchReturnsPoint ==
    (pc = "done" /\ call.entry = "gridless" /\ Truthy(call.hasStop, call.stopTarget)) =>
        /\ result.kind = "MeasurementResult"
        /\ call.stopTarget >= GridlessSegment(a, B, "mover", Fn).moveDistance
              => result.endGridCoords = B
        /\ a.u <= result.endGridCoords.u /\ result.endGridCoords.u <= B.u

====
